---- MODULE Spec2Model ----
(***************************************************************************)
(* A model of the equation pipeline of EqMod: the scanner                  *)
(* (utils/latex_utils.py), the renderer (utils/image_utils.py), the        *)
(* composer (gui/app_gui.py copy_images), the clipboard payload encoders   *)
(* (utils/clipboard_utils.py and noTouch.py), the base64 validators, the   *)
(* clipboard monitor and the document export (gui/app_gui.py).             *)
(*                                                                         *)
(* Python strings are TLA+ strings; offsets are Python's 0-based offsets.  *)
(***************************************************************************)
EXTENDS Integers, Sequences, FiniteSets, TLC

VARIABLES
    pc,                 \* position of the running handler
    only_images,        \* self.only_images_var
    text,               \* the stripped input text of the run (original_text)
    equations,          \* result of find_latex_equations(text)
    render_i,           \* 1-based index of the next equation to render
    images,             \* the local list `images` of render_input_text
    html_content,       \* the fragment built by copy_images, as a run list
    last_images,        \* self.last_images
    last_original_text, \* self.last_original_text
    last_equations,     \* self.last_equations
    status,             \* self.status_var
    dialog,             \* the last messagebox shown
    clipboard,          \* content of the system clipboard
    frag,               \* argument of set_clipboard_html (list of characters)
    payload,            \* bytes built by utils/clipboard_utils.set_clipboard_html
    frag_bytes,         \* byte length of the fragment given to noTouch.set_clipboard_html
    twopass,            \* what noTouch.set_clipboard_html computed
    b64_input,          \* argument of validate_base64
    b64_result,         \* results of the two validate_base64 functions
    mode,               \* self.mode_var
    scan_input,         \* argument of find_latex_equations
    scan_result,        \* what find_latex_equations did with it
    render_mode,        \* argument `mode` of render_latex_to_image
    engine_out,         \* what the typesetting engine does for the equation
    render_out,         \* what render_latex_to_image did
    kept,               \* what the filter of copy_images keeps of the engine's image
    crop_in,            \* the picture of the engine: its size, bounding box and dpi
    crop_box,           \* the box handed to img.crop
    monitoring,         \* self.monitoring
    stop_event,         \* self.stop_event is set
    scheduled,          \* start_monitor_thread callbacks waiting in root.after
    threads,            \* the monitor threads started so far
    clip_seq,           \* the clipboard sequence number
    copies,             \* clipboard changes made by other programs so far
    clicks,             \* clicks that started or stopped monitoring so far
    docx,               \* what save_as_docx wrote last
    closed              \* the window was closed

vars == <<pc, only_images, text, equations, render_i, images, html_content,
          last_images, last_original_text, last_equations, status, dialog,
          clipboard, frag, payload, frag_bytes, twopass, b64_input, b64_result,
          mode, scan_input, scan_result, render_mode, engine_out, render_out,
          kept, crop_in, crop_box, monitoring, stop_event, scheduled, threads,
          clip_seq, copies, clicks, docx, closed>>

pipeline_vars == <<pc, only_images, text, equations, render_i, images,
                   html_content, last_images, last_original_text,
                   last_equations, status, dialog, clipboard, mode>>
payload_vars == <<frag, payload>>
twopass_vars == <<frag_bytes, twopass>>
b64_vars == <<b64_input, b64_result>>
scan_vars == <<scan_input, scan_result>>
render_vars == <<render_mode, engine_out, render_out, kept>>
crop_vars == <<crop_in, crop_box>>
monitor_vars == <<monitoring, stop_event, scheduled, threads, clip_seq, copies,
                  clicks, docx, closed>>

-----------------------------------------------------------------------------
(* Bounds of the model *)

MaxChunks == 3      \* an input text is made of at most this many chunks
MaxFragLen == 3     \* a fragment given to the encoder has at most this many characters
MaxNear == 300      \* fragment byte lengths: at most this far from 0 and from the 8-digit limit
MaxB64Chunks == 3   \* a base64 input is made of at most this many chunks
MaxDim == 4         \* a cropped picture is at most this many half-maxima wide and high

-----------------------------------------------------------------------------
(* Python string primitives *)

MinOf(S) == CHOOSE m \in S : \A n \in S : m <= n

\* s[a:b] for 0 <= a, 0 <= b (both clamped to len(s); empty when a >= b)
Slice(s, a, b) ==
    LET hi == IF b > Len(s) THEN Len(s) ELSE b
    IN  IF a >= hi THEN "" ELSE SubSeq(s, a + 1, hi)

\* s[a:]
SliceFrom(s, a) == Slice(s, a, Len(s))

\* str.startswith at 1-based position i
StartsWithAt(s, i, pat) ==
    /\ i >= 1
    /\ i + Len(pat) - 1 <= Len(s)
    /\ SubSeq(s, i, i + Len(pat) - 1) = pat

\* least 1-based position >= from where pat occurs in s, 0 when there is none
FindAt(s, pat, from) ==
    LET hits == {i \in from..(Len(s) - Len(pat) + 1) : StartsWithAt(s, i, pat)}
    IN  IF hits = {} THEN 0 ELSE MinOf(hits)

IsSpace(c) == c \in {" ", "\n", "\r", "\t"}

RECURSIVE LStrip(_)
LStrip(s) ==
    IF s # "" /\ IsSpace(SubSeq(s, 1, 1)) THEN LStrip(SubSeq(s, 2, Len(s))) ELSE s

RECURSIVE RStrip(_)
RStrip(s) ==
    IF s # "" /\ IsSpace(SubSeq(s, Len(s), Len(s)))
    THEN RStrip(SubSeq(s, 1, Len(s) - 1)) ELSE s

\* str.strip()
Strip(s) == RStrip(LStrip(s))

\* str.replace(old, new): left to right, non-overlapping (old non-empty)
RECURSIVE Replace(_, _, _)
Replace(s, old, new) ==
    IF Len(s) < Len(old) THEN s
    ELSE IF SubSeq(s, 1, Len(old)) = old
         THEN new \o Replace(SubSeq(s, Len(old) + 1, Len(s)), old, new)
         ELSE SubSeq(s, 1, 1) \o Replace(SubSeq(s, 2, Len(s)), old, new)

\* html.escape(s) with its default quote=True
HtmlEscape(s) ==
    Replace(Replace(Replace(Replace(Replace(s, "&", "&amp;"), "<", "&lt;"),
                            ">", "&gt;"), "\"", "&quot;"), "'", "&#x27;")

\* html.escape(seg).replace('\r\n', '<br>').replace('\n', '<br>')
EscapeSegment(seg) ==
    Replace(Replace(HtmlEscape(seg), "\r\n", "<br>"), "\n", "<br>")

-----------------------------------------------------------------------------
(* The scanner: utils/latex_utils.py find_latex_equations *)

\* the five (pattern, is_display) pairs; each pattern is open (.*?) close
patterns ==
    << [open |-> "\\[", close |-> "\\]", is_display |-> TRUE],
       [open |-> "\\(", close |-> "\\)", is_display |-> FALSE],
       [open |-> "$$", close |-> "$$", is_display |-> TRUE],
       [open |-> "$", close |-> "$", is_display |-> FALSE],
       [open |-> "\\begin{equation}", close |-> "\\end{equation}",
        is_display |-> TRUE] >>

\* The search in which an opening delimiter without a closing one matches up
\* to the end of the text.
RECURSIVE FindIterOpenEnded(_, _, _, _)
FindIterOpenEnded(s, open, close, from) ==
    LET i == FindAt(s, open, from)
        j == IF i = 0 THEN 0 ELSE FindAt(s, close, i + Len(open))
    IN  IF i = 0 THEN << >>
        ELSE IF j = 0
        THEN << [start |-> i - 1, end |-> Len(s),
                 group |-> SubSeq(s, i + Len(open), Len(s)),
                 raw |-> SubSeq(s, i, Len(s))] >>
        ELSE << [start |-> i - 1,
                 end |-> j + Len(close) - 1,
                 group |-> SubSeq(s, i + Len(open), j - 1),
                 raw |-> SubSeq(s, i, j + Len(close) - 1)] >>
             \o FindIterOpenEnded(s, open, close, j + Len(close))

\* re.finditer(open(.*?)close, s, re.DOTALL) from 1-based position `from`:
\* the leftmost position where open matches and a close follows, the group
\* grown to the first close; the search resumes at the end of the match.
RECURSIVE FindIter(_, _, _, _)
FindIter(s, open, close, from) ==
    LET i == FindAt(s, open, from)
        j == IF i = 0 THEN 0 ELSE FindAt(s, close, i + Len(open))
    IN  IF i = 0 THEN << >>
        ELSE IF j = 0 THEN FindIter(s, open, close, i + 1)
        ELSE << [start |-> i - 1,
                 end |-> j + Len(close) - 1,
                 group |-> SubSeq(s, i + Len(open), j - 1),
                 raw |-> SubSeq(s, i, j + Len(close) - 1)] >>
             \o FindIter(s, open, close, j + Len(close))

\* `if equation:` on the stripped group
Accepts(equation) == equation # ""

\* equation.replace('\n', ' ').strip()
Cleaned(equation) == Strip(Replace(equation, "\n", " "))

\* the inner loop for one pattern: the accepted matches, in match order
RECURSIVE PatternMatches(_, _)
PatternMatches(found, is_display) ==
    IF found = << >> THEN << >>
    ELSE LET m == Head(found)
             equation == Strip(m.group)
         IN  (IF Accepts(equation)
              THEN << [start |-> m.start, end |-> m.end,
                       equation |-> Cleaned(equation),
                       is_display |-> is_display,
                       raw_match |-> m.raw] >>
              ELSE << >>)
             \o PatternMatches(Tail(found), is_display)

\* The pool in which a match lying inside a match of an earlier pattern is
\* dropped.
RECURSIVE PoolFirstGrammarWins(_, _)
PoolFirstGrammarWins(s, k) ==
    IF k > Len(patterns) THEN << >>
    ELSE LET mine == PatternMatches(FindIter(s, patterns[k].open,
                                             patterns[k].close, 1),
                                    patterns[k].is_display)
             rest == PoolFirstGrammarWins(s, k + 1)
         IN  mine \o SelectSeq(rest, LAMBDA m :
                         ~\E i \in 1..Len(mine) :
                             mine[i].start <= m.start /\ m.end <= mine[i].end)

\* the outer loop: the matches of all patterns, in pattern order
RECURSIVE Pool(_, _)
Pool(s, k) ==
    IF k > Len(patterns) THEN << >>
    ELSE PatternMatches(FindIter(s, patterns[k].open, patterns[k].close, 1),
                        patterns[k].is_display)
         \o Pool(s, k + 1)

\* insertion that keeps equal keys in their order (list.sort is stable)
RECURSIVE InsertByStart(_, _)
InsertByStart(sorted, m) ==
    IF sorted = << >> THEN << m >>
    ELSE IF Head(sorted).start <= m.start
         THEN << Head(sorted) >> \o InsertByStart(Tail(sorted), m)
         ELSE << m >> \o sorted

RECURSIVE SortRec(_, _)
SortRec(ms, acc) ==
    IF ms = << >> THEN acc ELSE SortRec(Tail(ms), InsertByStart(acc, Head(ms)))

\* The pool left in pattern order, the scan without its final sort.
Unsorted(ms) == ms
\* matches.sort(key=lambda x: x['start'])
SortByStart(ms) == SortRec(ms, << >>)

NoEquations == [equations |-> << >>, matches |-> << >>]

\* The contents read off the sorted matches from the last one to the first.
EquationsInReverse(matches) ==
    [i \in 1..Len(matches) |-> matches[Len(matches) + 1 - i].equation]
\* sorted_equations = [m['equation'] for m in matches]
sorted_equations(matches) == [i \in 1..Len(matches) |-> matches[i].equation]

find_latex_equations(s) ==
    IF s = "" THEN NoEquations
    ELSE LET matches == SortByStart(Pool(s, 1))
         IN  [equations |-> sorted_equations(matches),
              matches |-> matches]

-----------------------------------------------------------------------------
(* Input texts of the model: concatenations of at most MaxChunks chunks *)

Chunks ==
    { "\\[", "\\]", "$", "\\", "x", "\n", "\"<&",
      "\\(y\nw\\)", "\\begin{equation}z\\end{equation}" }

RECURSIVE Concat(_)
Concat(cs) == IF cs = << >> THEN "" ELSE Head(cs) \o Concat(Tail(cs))

Texts == {Concat(cs) : cs \in UNION {[1..n -> Chunks] : n \in 0..MaxChunks}}

-----------------------------------------------------------------------------
(* The renderer: utils/image_utils.py.  What the typesetting engine does  *)
(* for an equation is an input of the render functions, a record of        *)
(*   engine  "image" when the engine produced a picture, else the way it   *)
(*           failed: "exception", and for the subprocesses of Standalone   *)
(*           "latex_fails", "dvipng_fails" (non-zero exit), "no_png",      *)
(*           "latex_hangs", "dvipng_hangs" (the process does not finish)   *)
(*   bbox    whether img.getbbox() finds a bounding box                    *)
(*   width, height   size of the picture after the crop                    *)
(*   opaque  non-transparent pixels count_non_transparent_pixels finds in  *)
(*           the picture handed to is_image_empty                          *)

EmptyThreshold == 100
max_width == 1800
max_height == 600

\* The emptiness test with the threshold itself counted as empty.
IsEmptyUpToThreshold(img) == img.opaque <= EmptyThreshold
\* utils/image_utils.py is_image_empty
is_image_empty(img) == img.opaque < EmptyThreshold

\* the value None, and the fields of an image
NoneImage == [none |-> TRUE, src |-> 0, width |-> 0, height |-> 0, opaque |-> 0]

\* lines 77-85 (161-171): the size given to img.resize for a cropped image
\* of w x h; int() of the float quotient is the integer quotient here
Resized(w, h) ==
    IF w > max_width \/ h > max_height
    THEN IF w > max_width
         THEN [width |-> max_width, height |-> (max_width * h) \div w]
         ELSE [width |-> (w * max_height) \div h, height |-> max_height]
    ELSE [width |-> w, height |-> h]

\* lines 66-93 (152-181): bounding box, crop, resize, emptiness check.  A
\* size of 0 makes img.resize raise or leaves a picture without pixels;
\* the except clause or is_image_empty turns both into None.
FinishImage(r) ==
    IF ~r.bbox THEN NoneImage
    ELSE LET size == Resized(r.width, r.height)
             img == [none |-> FALSE, src |-> 0, width |-> size.width,
                     height |-> size.height, opaque |-> r.opaque]
         IN  IF size.width = 0 \/ size.height = 0 THEN NoneImage
             ELSE IF is_image_empty(img) THEN NoneImage
             ELSE img

\* how a call of a render function ends
Returned(img) == [outcome |-> "returned", image |-> img]
Raised == [outcome |-> "raised", image |-> NoneImage]
Blocked == [outcome |-> "blocked", image |-> NoneImage]

\* The Matplotlib render without its try/except.
RenderMatplotlibUncaught(r) ==
    IF r.engine = "exception" THEN Raised ELSE Returned(FinishImage(r))
\* lines 45-96
render_latex_matplotlib(r) ==
    IF r.engine = "exception" THEN Returned(NoneImage)
    ELSE Returned(FinishImage(r))

\* lines 98-184: subprocess.run is called without a timeout, so it returns
\* only when the process has finished
render_latex_standalone(r) ==
    CASE r.engine = "exception" -> Returned(NoneImage)
      [] r.engine = "latex_hangs" -> Blocked
      [] r.engine = "latex_fails" -> Returned(NoneImage)
      [] r.engine = "dvipng_hangs" -> Blocked
      [] r.engine = "dvipng_fails" -> Returned(NoneImage)
      [] r.engine = "no_png" -> Returned(NoneImage)
      [] OTHER -> Returned(FinishImage(r))

\* lines 33-43
render_latex_to_image(r, m) ==
    IF m = "Matplotlib" THEN render_latex_matplotlib(r)
    ELSE IF m = "Standalone" THEN render_latex_standalone(r)
    ELSE Returned(NoneImage)

\* the entries of the mode menu (gui/app_gui.py line 110)
Modes == {"Matplotlib", "Standalone"}

\* the ways the engine of mode m can fail
EngineFailures(m) ==
    IF m = "Standalone"
    THEN {"exception", "latex_fails", "dvipng_fails", "no_png",
          "latex_hangs", "dvipng_hangs"}
    ELSE {"exception"}

Failure(kind) ==
    [engine |-> kind, bbox |-> FALSE, width |-> 0, height |-> 0, opaque |-> 0]
NoBBox == Failure("image")

\* cropped sizes: one pixel, multiples of half the maximum, one above it
Widths == {1, max_width + 1} \cup {k * (max_width \div 2) : k \in 1..MaxDim}
Heights == {1, max_height + 1} \cup {k * (max_height \div 2) : k \in 1..MaxDim}
Opaques == {0, EmptyThreshold - 1, EmptyThreshold, EmptyThreshold + 1}

\* the pictures of the engine: no more non-transparent pixels than pixels
EngineImages ==
    {r \in [engine : {"image"}, bbox : {TRUE}, width : Widths,
            height : Heights, opaque : Opaques] :
        r.opaque <= Resized(r.width, r.height).width
                    * Resized(r.width, r.height).height}

EngineOutcomes(m) ==
    EngineImages \cup {NoBBox} \cup {Failure(kind) : kind \in EngineFailures(m)}

\* the engine outcomes of a pipeline run: every failure, and pictures of one
\* size just below and at the emptiness threshold
PipelineEngineOutcomes(m) ==
    {[engine |-> "image", bbox |-> TRUE, width |-> max_width \div 2,
      height |-> max_height \div 2, opaque |-> o] :
        o \in {EmptyThreshold - 1, EmptyThreshold}}
    \cup {NoBBox} \cup {Failure(kind) : kind \in EngineFailures(m)}

-----------------------------------------------------------------------------
(* The clipboard backend seen by set_clipboard_html *)

ClipOutcomes == {"ok", "register_fails", "open_fails", "empty_fails", "set_fails"}

\* the clipboard after set_clipboard_html(html) ended with outcome c:
\* EmptyClipboard has run before SetClipboardData is tried
ClipboardAfter(c, cur, html) ==
    CASE c = "ok" -> [kind |-> "html", fragment |-> html]
      [] c = "set_fails" -> [kind |-> "empty", fragment |-> << >>]
      [] OTHER -> cur

-----------------------------------------------------------------------------
(* The composer: gui/app_gui.py copy_images *)

StyleRun == [kind |-> "style"]

\* f'<span>{text_segment}</span>' for original_text[lo:hi]
TextRun(original_text, lo, hi) ==
    [kind |-> "text", html |-> EscapeSegment(Slice(original_text, lo, hi)),
     lo |-> lo, hi |-> hi]

\* f'<img src="data:image/png;base64,{b64}" ...>' for the image img, emitted
\* in the iteration of match number at (0 outside the match loop)
ImageRun(img, at) == [kind |-> "img", src |-> img.src, at |-> at]

\* the filter of lines 564-585: None and empty images are skipped; the base64
\* of the PNG bytes of an image always passes validate_base64
ValidImages(imgs) ==
    SelectSeq(imgs, LAMBDA img : /\ ~(img.none \/ is_image_empty(img))
                                 /\ ~(img.width = 0 \/ img.height = 0))

\* The loop with the cursor left at the start of each span instead of its end.
RECURSIVE ComposeStuckCursor(_, _, _, _, _, _)
ComposeStuckCursor(original_text, matches, valid, k, last_pos, img_index) ==
    IF k > Len(matches)
    THEN << TextRun(original_text, last_pos, Len(original_text)) >>
    ELSE LET m == matches[k]
             has == img_index < Len(valid)
         IN  << TextRun(original_text, last_pos, m.start) >>
             \o (IF has THEN << ImageRun(valid[img_index + 1], k) >> ELSE << >>)
             \o ComposeStuckCursor(original_text, matches, valid, k + 1,
                                   m.start, IF has THEN img_index + 1 ELSE img_index)

\* lines 594-606: the loop over equations['matches'] and the final segment
RECURSIVE ComposeLoop(_, _, _, _, _, _)
ComposeLoop(original_text, matches, valid, k, last_pos, img_index) ==
    IF k > Len(matches)
    THEN << TextRun(original_text, last_pos, Len(original_text)) >>
    ELSE LET m == matches[k]
             has == img_index < Len(valid)
         IN  << TextRun(original_text, last_pos, m.start) >>
             \o (IF has THEN << ImageRun(valid[img_index + 1], k) >> ELSE << >>)
             \o ComposeLoop(original_text, matches, valid, k + 1,
                            m.end, IF has THEN img_index + 1 ELSE img_index)

\* The images of the only-images branch followed by an empty text run.
OnlyImageRunsThenText(valid) ==
    [i \in 1..Len(valid) |-> [kind |-> "img", src |-> valid[i].src, at |-> 0]]
    \o << [kind |-> "text", html |-> "", lo |-> 0, hi |-> 0] >>
\* lines 590-592: only the images
OnlyImageRuns(valid) == [i \in 1..Len(valid) |-> ImageRun(valid[i], 0)]

\* lines 608-630: no text given; a '<br>' after every image but the last of
\* the images list
RECURSIVE PlainImageRuns(_, _)
PlainImageRuns(imgs, i) ==
    IF i > Len(imgs) THEN << >>
    ELSE (IF imgs[i].none \/ is_image_empty(imgs[i]) THEN << >>
          ELSE << ImageRun(imgs[i], 0) >>
               \o (IF i < Len(imgs) THEN << [kind |-> "br"] >> ELSE << >>))
         \o PlainImageRuns(imgs, i + 1)

\* The reset of line 495 left out: the images of earlier runs are kept.
KeepsLastImages(prev) == prev
\* line 495: self.last_images = []
ResetLastImages(prev) == << >>

\* the state copy_images leaves behind when called in the state cur with the
\* "Only Images" box at only, given the outcome clip of the clipboard
\* backend should set_clipboard_html be called
CopyImagesFrom(cur, imgs, test_mode, original_text, eqs, only, clip) ==
    LET valid == ValidImages(imgs)
        reset == [cur EXCEPT !.last_images = ResetLastImages(cur.last_images),
                             !.last_original_text = original_text,
                             !.last_equations = eqs,
                             !.html_content = << StyleRun >>]
        stored == reset.last_images \o valid
        n == ToString(Len(stored))
        Set(r, html, okstatus) ==
            [r EXCEPT !.html_content = html,
                      !.last_images = stored,
                      !.called = TRUE,
                      !.clipboard = ClipboardAfter(clip, cur.clipboard, html),
                      !.status = IF clip = "ok" THEN okstatus
                                 ELSE "Error copying images"]
        NoValid(r) == [r EXCEPT !.status = "No valid images"]
    IN  IF imgs = << >> THEN cur
        ELSE IF test_mode \/ original_text # ""
        THEN IF eqs.matches = << >>
             THEN IF valid # << >>
                  THEN Set(reset, << StyleRun >> \o OnlyImageRuns(valid),
                           "Copied " \o n \o " images")
                  ELSE reset
             ELSE IF valid = << >> THEN NoValid(reset)
             ELSE IF only
                  THEN Set(reset, << StyleRun >> \o OnlyImageRuns(valid),
                           "Copied " \o n \o " images with text")
                  ELSE Set(reset,
                           << StyleRun >>
                           \o ComposeLoop(original_text, eqs.matches, valid, 1, 0, 0),
                           "Copied " \o n \o " images with text")
        ELSE IF valid # << >>
             THEN Set(reset, << StyleRun >> \o PlainImageRuns(imgs, 1),
                      "Copied " \o n \o " images with text")
             ELSE NoValid(reset)

\* copy_images called in the current state
CopyImages(imgs, test_mode, original_text, eqs, clip) ==
    CopyImagesFrom([html_content |-> html_content, last_images |-> last_images,
                    last_original_text |-> last_original_text,
                    last_equations |-> last_equations, status |-> status,
                    clipboard |-> clipboard, called |-> FALSE],
                   imgs, test_mode, original_text, eqs, only_images, clip)

-----------------------------------------------------------------------------
(* The handler of the Render Input button: gui/app_gui.py render_input_text *)

\* The handler with the guard of line 359 removed.
CopiesAlways(imgs) == TRUE
\* line 359, `if images:`
HasImages(imgs) == imgs # << >>

\* the "Only Images" checkbox
ToggleOnlyImages ==
    /\ pc = "idle"
    /\ only_images' = ~only_images
    /\ UNCHANGED <<pc, text, equations, render_i, images, html_content,
                   last_images, last_original_text, last_equations, status,
                   dialog, clipboard, mode>>

\* the "Render Mode" menu
SelectMode ==
    /\ pc = "idle"
    /\ \E m \in Modes \ {mode} : mode' = m
    /\ UNCHANGED <<pc, only_images, text, equations, render_i, images,
                   html_content, last_images, last_original_text,
                   last_equations, status, dialog, clipboard>>

\* lines 339-348: read and strip the input t of the text box, scan it
RenderInputStart ==
    /\ pc = "idle"
    /\ \E t \in Texts :
          /\ text' = Strip(t)
          /\ IF text' = ""
             THEN /\ dialog' = "No Input"
                  /\ pc' = "done"
                  /\ UNCHANGED <<equations, images, render_i>>
             ELSE /\ equations' = find_latex_equations(text')
                  /\ images' = << >>
                  /\ render_i' = 1
                  /\ pc' = "render"
                  /\ UNCHANGED dialog
    /\ UNCHANGED <<only_images, html_content, last_images, last_original_text,
                   last_equations, status, clipboard, mode>>

\* lines 349-358: one iteration of the render loop for the engine outcome r;
\* saved tells whether img.save wrote the debug file.  A call that does not
\* return leaves the handler blocked; an exception ends the handler in the
\* except clause of lines 366-369.
RenderEquation ==
    /\ pc = "render"
    /\ render_i <= Len(equations.equations)
    /\ \E call \in {render_latex_to_image(r, mode) :
                          r \in PipelineEngineOutcomes(mode)} :
       \E saved \in (IF call.image.none THEN {TRUE} ELSE BOOLEAN) :
          LET img == [call.image EXCEPT !.src = render_i]
          IN  CASE call.outcome = "blocked" ->
                       /\ pc' = "blocked"
                       /\ UNCHANGED <<images, render_i, status, dialog>>
                [] call.outcome = "raised" ->
                       /\ pc' = "done"
                       /\ dialog' = "Render Input Failed"
                       /\ status' = "Render input failed"
                       /\ UNCHANGED <<images, render_i>>
                [] call.outcome = "returned" /\ ~img.none /\ ~saved ->
                       /\ images' = Append(images, img)
                       /\ pc' = "done"
                       /\ dialog' = "Render Input Failed"
                       /\ status' = "Render input failed"
                       /\ UNCHANGED render_i
                [] OTHER ->
                       /\ images' = IF img.none THEN images
                                    ELSE Append(images, img)
                       /\ render_i' = render_i + 1
                       /\ UNCHANGED <<pc, status, dialog>>
    /\ UNCHANGED <<only_images, text, equations, html_content, last_images,
                   last_original_text, last_equations, clipboard, mode>>

\* lines 359-365: copy the images, report; clip is what the clipboard backend
\* does when set_clipboard_html is called
RenderInputFinish ==
    /\ pc = "render"
    /\ render_i > Len(equations.equations)
    /\ IF HasImages(images)
       THEN \E clip \in ClipOutcomes :
            LET r == CopyImages(images, FALSE, text, equations, clip)
            IN  /\ html_content' = r.html_content
                /\ last_images' = r.last_images
                /\ last_original_text' = r.last_original_text
                /\ last_equations' = r.last_equations
                /\ clipboard' = r.clipboard
                /\ status' = "Copied " \o ToString(Len(images)) \o " images with text"
                /\ dialog' = "Copied " \o ToString(Len(images)) \o " images with text as HTML"
       ELSE /\ status' = "No valid images rendered"
            /\ dialog' = "Failed to render any valid images"
            /\ UNCHANGED <<html_content, last_images, last_original_text,
                           last_equations, clipboard>>
    /\ pc' = "done"
    /\ UNCHANGED <<only_images, text, equations, render_i, images, mode>>

-----------------------------------------------------------------------------
(* The specification of one run of the pipeline *)

PipelineInit ==
    /\ pc = "idle"
    /\ only_images = FALSE
    /\ text = ""
    /\ equations = NoEquations
    /\ render_i = 1
    /\ images = << >>
    /\ html_content = << >>
    /\ last_images = << >>
    /\ last_original_text = ""
    /\ last_equations = NoEquations
    /\ status = "Idle"
    /\ dialog = ""
    /\ clipboard = [kind |-> "other", fragment |-> << >>]
    /\ mode = "Matplotlib"

PayloadIdle == frag = << >> /\ payload = [outcome |-> "pending", bytes |-> << >>]
TwoPassIdle == frag_bytes = 0 /\ twopass = [outcome |-> "pending"]
B64Idle == b64_input = "" /\ b64_result = [utils |-> "pending", noTouch |-> "pending"]
ScanIdle ==
    /\ scan_input = [none |-> TRUE, s |-> ""]
    /\ scan_result = [outcome |-> "pending", result |-> NoEquations]
RenderIdle ==
    /\ render_mode = "Matplotlib"
    /\ engine_out = NoBBox
    /\ render_out = [outcome |-> "pending", image |-> NoneImage]
    /\ kept = [done |-> FALSE, images |-> << >>]
CropIdle ==
    /\ crop_in = [width |-> 1, height |-> 1, bbox |-> <<0, 0, 1, 1>>, dpi |-> 100]
    /\ crop_box = << >>
\* lines 24-26 of __init__: nothing monitors, no thread exists
MonitorIdle ==
    /\ monitoring = FALSE
    /\ stop_event = FALSE
    /\ scheduled = 0
    /\ threads = << >>
    /\ clip_seq = 1
    /\ copies = 0
    /\ clicks = 0
    /\ docx = [outcome |-> "none", items |-> << >>]
    /\ closed = FALSE

Init == PipelineInit /\ PayloadIdle /\ TwoPassIdle /\ B64Idle /\ ScanIdle /\ RenderIdle /\ CropIdle /\ MonitorIdle

Next ==
    \/ ToggleOnlyImages /\ UNCHANGED <<payload_vars, twopass_vars, b64_vars, scan_vars, render_vars, crop_vars, monitor_vars>>
    \/ SelectMode /\ UNCHANGED <<payload_vars, twopass_vars, b64_vars, scan_vars, render_vars, crop_vars, monitor_vars>>
    \/ RenderInputStart /\ UNCHANGED <<payload_vars, twopass_vars, b64_vars, scan_vars, render_vars, crop_vars, monitor_vars>>
    \/ RenderEquation /\ UNCHANGED <<payload_vars, twopass_vars, b64_vars, scan_vars, render_vars, crop_vars, monitor_vars>>
    \/ RenderInputFinish /\ UNCHANGED <<payload_vars, twopass_vars, b64_vars, scan_vars, render_vars, crop_vars, monitor_vars>>

Spec == Init /\ [][Next]_vars

\* the GUI thread runs the render loop on: an iteration that can be taken is
\* taken
RenderStep ==
    RenderEquation
        /\ UNCHANGED <<payload_vars, twopass_vars, b64_vars, scan_vars, render_vars, crop_vars, monitor_vars>>
FairSpec == Spec /\ WF_vars(RenderStep)

-----------------------------------------------------------------------------
(* Character lists and UTF-8: a character is a one-character string, or the *)
(* name of a non-ASCII code point; a byte is a one-character string (ASCII) *)
(* or the name of a byte value above 127.                                   *)

\* list(s) for an ASCII string s
Chars(s) == [i \in 1..Len(s) |-> SubSeq(s, i, i)]

\* the concatenation of a list of lists (by halves)
RECURSIVE Flatten(_)
Flatten(ss) ==
    IF ss = << >> THEN << >>
    ELSE IF Len(ss) = 1 THEN ss[1]
    ELSE LET h == Len(ss) \div 2
         IN  Flatten(SubSeq(ss, 1, h)) \o Flatten(SubSeq(ss, h + 1, Len(ss)))

\* c.encode('utf-8') for one character
Utf8(c) ==
    CASE c = "U+00E9" -> << "0xC3", "0xA9" >>
      [] c = "U+20AC" -> << "0xE2", "0x82", "0xAC" >>
      [] OTHER -> << c >>

\* chars.encode('utf-8')
Encode(chars) == Flatten([i \in 1..Len(chars) |-> Utf8(chars[i])])

\* bytes.decode('utf-8'): the characters, or a failure on a malformed sequence
RECURSIVE Decode(_)
Decode(bytes) ==
    IF bytes = << >> THEN [ok |-> TRUE, chars |-> << >>]
    ELSE LET b == Head(bytes)
             n == IF Len(b) = 1 THEN 1
                  ELSE IF b = "0xC3" THEN 2
                  ELSE IF b = "0xE2" THEN 3 ELSE 0
             c == IF n = 1 THEN b
                  ELSE IF n = 2 /\ Len(bytes) >= 2 /\ SubSeq(bytes, 1, 2) = Utf8("U+00E9")
                       THEN "U+00E9"
                  ELSE IF n = 3 /\ Len(bytes) >= 3 /\ SubSeq(bytes, 1, 3) = Utf8("U+20AC")
                       THEN "U+20AC"
                  ELSE ""
         IN  IF c = "" THEN [ok |-> FALSE, chars |-> << >>]
             ELSE LET rest == Decode(SubSeq(bytes, n + 1, Len(bytes)))
                  IN  [ok |-> rest.ok,
                       chars |-> IF rest.ok THEN << c >> \o rest.chars ELSE << >>]

\* least 1-based index >= from where the list pat occurs in the list s, else 0
FindSeq(s, pat, from) ==
    LET hits == {i \in from..(Len(s) - Len(pat) + 1) :
                    SubSeq(s, i, i + Len(pat) - 1) = pat}
    IN  IF hits = {} THEN 0 ELSE MinOf(hits)

\* format(n, '0<w>d'): decimal digits, zero-padded on the left to w at least
RECURSIVE ZeroPad(_, _)
ZeroPad(digits, w) == IF Len(digits) >= w THEN digits ELSE ZeroPad("0" \o digits, w)

\* int() of a list of decimal digits
RECURSIVE ParseInt(_)
ParseInt(ds) ==
    IF ds = << >> THEN 0
    ELSE 10 * ParseInt(SubSeq(ds, 1, Len(ds) - 1))
         + (FindAt("0123456789", ds[Len(ds)], 1) - 1)

-----------------------------------------------------------------------------
(* The encoder of the pipeline: utils/clipboard_utils.py set_clipboard_html *)

\* html_header, the template with its three replacement fields
html_header ==
    "Version:0.9\r\n"
    \o "StartHTML:0000000105\r\n"
    \o "EndHTML:{:010d}\r\n"
    \o "StartFragment:0000000141\r\n"
    \o "EndFragment:{:010d}\r\n"
    \o "<html><body>\r\n"
    \o "<!--StartFragment-->{}<!--EndFragment-->\r\n"
    \o "</body></html>"

\* one replacement field: {:010d} takes an integer, {} a character list
FormatField(spec, arg) ==
    IF spec = Chars(":010d") THEN Chars(ZeroPad(ToString(arg), 10)) ELSE arg

\* str.format with positional arguments, over character lists: the text up
\* to the next '{' is copied, the field up to its '}' is replaced
RECURSIVE Format(_, _)
Format(template, args) ==
    LET open == FindSeq(template, << "{" >>, 1)
        close == FindSeq(template, << "}" >>, 1)
    IN  IF open = 0 THEN template
        ELSE SubSeq(template, 1, open - 1)
             \o FormatField(SubSeq(template, open + 1, close - 1), Head(args))
             \o Format(SubSeq(template, close + 1, Len(template)), Tail(args))

\* lines 33-41: the offsets and the bytes handed to SetClipboardData
HtmlBytes(fragment) ==
    Encode(Format(Chars(html_header),
                  << Len(html_header) + Len(fragment),
                     Len(html_header) + Len(fragment)
                        - Len("<!--EndFragment-->\r\n</body></html>"),
                     fragment >>))

\* lines 8-41, up to the clipboard calls
SetClipboardHtml ==
    /\ payload.outcome = "pending"
    /\ payload' = IF frag = << >>
                  THEN [outcome |-> "raised", bytes |-> << >>]
                  ELSE [outcome |-> "built", bytes |-> HtmlBytes(frag)]
    /\ UNCHANGED frag

FragChars == {"a", "<", "U+00E9", "U+20AC"}
Fragments == UNION {[1..n -> FragChars] : n \in 0..MaxFragLen}

PayloadInit ==
    /\ frag \in Fragments
    /\ payload = [outcome |-> "pending", bytes |-> << >>]

SpecPayloadInit == PipelineInit /\ PayloadInit /\ TwoPassIdle /\ B64Idle /\ ScanIdle /\ RenderIdle /\ CropIdle /\ MonitorIdle
SpecPayloadNext ==
    SetClipboardHtml /\ UNCHANGED <<pipeline_vars, twopass_vars, b64_vars, scan_vars, render_vars, crop_vars, monitor_vars>>
SpecPayload == SpecPayloadInit /\ [][SpecPayloadNext]_vars

\* the decimal value written after `name` in the header of the payload
HeaderValue(bytes, name) ==
    LET at == FindSeq(bytes, Chars(name), 1) + Len(name)
        cr == FindSeq(bytes, << "\r" >>, at)
    IN  ParseInt(SubSeq(bytes, at, cr - 1))

\* C6: the bytes of the payload in [StartFragment, EndFragment), the values
\* being read from the header, decode as UTF-8 to exactly the fragment that
\* was passed in.
C6_FragmentRangeIsFragment ==
    payload.outcome = "built" =>
        LET b == payload.bytes
            got == Decode(SubSeq(b, HeaderValue(b, "StartFragment:") + 1,
                                 HeaderValue(b, "EndFragment:")))
        IN  got.ok /\ got.chars = frag

\* C7: StartHTML is the byte length of the header and EndHTML is the byte
\* length of the whole payload, for ASCII and non-ASCII fragments.
C7_HtmlRangeIsPayload ==
    payload.outcome = "built" =>
        LET b == payload.bytes
        IN  /\ HeaderValue(b, "StartHTML:") = FindSeq(b, Chars("<html>"), 1) - 1
            /\ HeaderValue(b, "EndHTML:") = Len(b)

-----------------------------------------------------------------------------
(* The two-pass encoder: noTouch.py set_clipboard_html.  The header is      *)
(* built as a string; the body is followed by its byte length.              *)

\* the document shell around the fragment (lines 56-68)
HtmlBefore ==
    "\n<!DOCTYPE HTML PUBLIC \"-//W3C//DTD HTML 4.0 Transitional//EN\">\n"
    \o "<HTML>\n<HEAD>\n"
    \o "<META http-equiv=Content-Type content=\"text/html; charset=utf-8\">\n"
    \o "</HEAD>\n<BODY>\n<!--StartFragment-->\n"
HtmlAfter == "\n<!--EndFragment-->\n</BODY>\n</HTML>\n"

\* the header of lines 74-79 and 84-89, every field written with :08d
Header(start_html, end_html, start_frag, end_frag) ==
    "Version:0.9\nStartHTML:" \o ZeroPad(ToString(start_html), 8)
    \o "\nEndHTML:" \o ZeroPad(ToString(end_html), 8)
    \o "\nStartFragment:" \o ZeroPad(ToString(start_frag), 8)
    \o "\nEndFragment:" \o ZeroPad(ToString(end_frag), 8)
    \o "\n"

\* lines 70-91 for a fragment of n bytes that holds no fragment marker
TwoPass(n) ==
    LET body_len == Len(HtmlBefore) + n + Len(HtmlAfter)
        start_fragment ==
            (FindAt(HtmlBefore, "<!--StartFragment-->", 1) - 1)
            + Len("<!--StartFragment-->")
        end_fragment ==
            Len(HtmlBefore) + n + (FindAt(HtmlAfter, "<!--EndFragment-->", 1) - 1)
        header_bytes == Header(0, body_len, start_fragment, end_fragment)
        start_html == Len(header_bytes)
        header == Header(start_html, Len(header_bytes) + body_len,
                         start_html + start_fragment, start_html + end_fragment)
    IN  [outcome |-> "built",
         pass1_len |-> Len(header_bytes),
         header |-> header,
         body_len |-> body_len,
         start_fragment |-> start_fragment,
         end_fragment |-> end_fragment,
         StartHTML |-> start_html,
         EndHTML |-> Len(header_bytes) + body_len,
         StartFragment |-> start_html + start_fragment,
         EndFragment |-> start_html + end_fragment]

NoTouchSetClipboardHtml ==
    /\ twopass.outcome = "pending"
    /\ twopass' = TwoPass(frag_bytes)
    /\ UNCHANGED frag_bytes

\* the largest value that :08d writes in eight characters
EightDigits == 99999999

FragByteLens == (0..MaxNear) \cup {EightDigits - d : d \in 0..MaxNear}

TwoPassInit ==
    /\ frag_bytes \in FragByteLens
    /\ twopass = [outcome |-> "pending"]

SpecTwoPassInit == PipelineInit /\ PayloadIdle /\ TwoPassInit /\ B64Idle /\ ScanIdle /\ RenderIdle /\ CropIdle /\ MonitorIdle
SpecTwoPassNext ==
    NoTouchSetClipboardHtml /\ UNCHANGED <<pipeline_vars, payload_vars, b64_vars, scan_vars, render_vars, crop_vars, monitor_vars>>
SpecTwoPass == SpecTwoPassInit /\ [][SpecTwoPassNext]_vars

\* C8: the header rendered in pass 2 has the byte length measured in pass 1,
\* for every fragment size, so that the four offsets computed from the pass-1
\* length are the true byte positions in the final header + body.
C8_HeaderWidthConstant ==
    twopass.outcome = "built" =>
        LET h == Len(twopass.header)
        IN  /\ h = twopass.pass1_len
            /\ twopass.StartHTML = h
            /\ twopass.EndHTML = h + twopass.body_len
            /\ twopass.StartFragment = h + twopass.start_fragment
            /\ twopass.EndFragment = h + twopass.end_fragment

-----------------------------------------------------------------------------
(* The two validate_base64 functions *)

B64Alphabet == "ABCDEFGHIJKLMNOPQRSTUVWXYZabcdefghijklmnopqrstuvwxyz0123456789+/"

IsB64Char(c) == FindAt(B64Alphabet, c, 1) # 0

\* re.match(r'^[A-Za-z0-9+/=]+$', data): '$' also matches before a final '\n'
MatchesB64Pattern(data) ==
    LET body == IF data # "" /\ SubSeq(data, Len(data), Len(data)) = "\n"
                THEN SubSeq(data, 1, Len(data) - 1) ELSE data
    IN  /\ body # ""
        /\ \A i \in 1..Len(body) :
              IsB64Char(SubSeq(body, i, i)) \/ SubSeq(body, i, i) = "="

\* the number of leading alphabet characters of data
RECURSIVE DataLen(_)
DataLen(data) ==
    IF data # "" /\ IsB64Char(SubSeq(data, 1, 1))
    THEN 1 + DataLen(SubSeq(data, 2, Len(data))) ELSE 0

\* base64.b64decode(data, validate=True) does not raise (binascii in strict
\* mode): alphabet characters, then nothing else but the padding the data
\* length asks for; after whole groups of four any run of '=' is let through
B64Decodes(data) ==
    LET d == DataLen(data)
        pad == SubSeq(data, d + 1, Len(data))
    IN  CASE d = 0 -> pad = ""
          [] d % 4 = 0 /\ d > 0 -> \A i \in 1..Len(pad) : SubSeq(pad, i, i) = "="
          [] d % 4 = 1 -> FALSE
          [] d % 4 = 2 -> pad = "=="
          [] d % 4 = 3 -> pad = "="

B64Value(c) == FindAt(B64Alphabet, c, 1) - 1

\* the bytes base64.b64decode returns for data that decodes
RECURSIVE B64Bytes(_)
B64Bytes(data) ==
    LET d == DataLen(data)
        v(i) == B64Value(SubSeq(data, i, i))
    IN  IF d >= 4
        THEN LET n == v(1) * 262144 + v(2) * 4096 + v(3) * 64 + v(4)
             IN  << n \div 65536, (n \div 256) % 256, n % 256 >>
                 \o B64Bytes(SubSeq(data, 5, Len(data)))
        ELSE IF d = 3
        THEN LET n == v(1) * 262144 + v(2) * 4096 + v(3) * 64
             IN  << n \div 65536, (n \div 256) % 256 >>
        ELSE IF d = 2
        THEN << (v(1) * 262144 + v(2) * 4096) \div 65536 >>
        ELSE << >>

\* b'\x89PNG\r\n\x1a\n'
PngSignature == << 137, 80, 78, 71, 13, 10, 26, 10 >>

StartsWithPng(bytes) ==
    Len(bytes) >= Len(PngSignature)
    /\ SubSeq(bytes, 1, Len(PngSignature)) = PngSignature

PyBool(b) == IF b THEN "True" ELSE "False"

\* utils/clipboard_utils.py validate_base64, the one gui/app_gui.py imports
validate_base64(data) == MatchesB64Pattern(data) /\ B64Decodes(data)

\* noTouch.py validate_base64
noTouch_validate_base64(data) ==
    B64Decodes(data) /\ StartsWithPng(B64Bytes(data))

ValidateBase64 ==
    /\ b64_result.utils = "pending"
    /\ b64_result' = [b64_result EXCEPT !.utils = PyBool(validate_base64(b64_input))]
    /\ UNCHANGED b64_input

NoTouchValidateBase64 ==
    /\ b64_result.noTouch = "pending"
    /\ b64_result' =
          [b64_result EXCEPT !.noTouch = PyBool(noTouch_validate_base64(b64_input))]
    /\ UNCHANGED b64_input

B64Chunks == {"iVBO", "Rw0K", "Ggo=", "GgpA", "QUJD", "QQ==", "Q!", "=", "\n"}
B64Inputs ==
    {Concat(cs) : cs \in UNION {[1..n -> B64Chunks] : n \in 0..MaxB64Chunks}}

B64Init ==
    /\ b64_input \in B64Inputs
    /\ b64_result = [utils |-> "pending", noTouch |-> "pending"]

SpecValidateInit == PipelineInit /\ PayloadIdle /\ TwoPassIdle /\ B64Init /\ ScanIdle /\ RenderIdle /\ CropIdle /\ MonitorIdle
SpecValidateNext ==
    \/ ValidateBase64 /\ UNCHANGED <<pipeline_vars, payload_vars, twopass_vars, scan_vars, render_vars, crop_vars, monitor_vars>>
    \/ NoTouchValidateBase64 /\ UNCHANGED <<pipeline_vars, payload_vars, twopass_vars, scan_vars, render_vars, crop_vars, monitor_vars>>
SpecValidate == SpecValidateInit /\ [][SpecValidateNext]_vars

\* C9: the validate operation the pipeline uses returns true exactly when the
\* string is valid base64 and its decoded bytes begin with the PNG signature.
C9_ValidateChecksPngSignature ==
    b64_result.utils # "pending" =>
        (b64_result.utils = "True"
            <=> (B64Decodes(b64_input) /\ StartsWithPng(B64Bytes(b64_input))))

-----------------------------------------------------------------------------
(* The scanner called on its own: any text, the empty text and None *)

ScanInputs ==
    {[none |-> TRUE, s |-> ""]} \cup {[none |-> FALSE, s |-> t] : t \in Texts}

\* a call find_latex_equations(text): `if not text:` holds of None and of ''
FindLatexEquations ==
    /\ scan_result.outcome = "pending"
    /\ scan_result' =
          [outcome |-> "returned",
           result |-> IF scan_input.none THEN NoEquations
                      ELSE find_latex_equations(scan_input.s)]
    /\ UNCHANGED scan_input

ScanInit ==
    /\ scan_input \in ScanInputs
    /\ scan_result = [outcome |-> "pending", result |-> NoEquations]

SpecScanInit ==
    PipelineInit /\ PayloadIdle /\ TwoPassIdle /\ B64Idle /\ ScanInit /\ RenderIdle /\ CropIdle /\ MonitorIdle
SpecScanNext ==
    FindLatexEquations
        /\ UNCHANGED <<pipeline_vars, payload_vars, twopass_vars, b64_vars, render_vars, crop_vars, monitor_vars>>
SpecScan == SpecScanInit /\ [][SpecScanNext]_vars

\* some pattern's opening delimiter occurs in s with its closing delimiter
\* somewhere after it
HasDelimiterPair(s) ==
    \E k \in 1..Len(patterns) :
        \E i \in 1..Len(s), j \in 1..Len(s) :
            /\ StartsWithAt(s, i, patterns[k].open)
            /\ StartsWithAt(s, j, patterns[k].close)
            /\ j >= i + Len(patterns[k].open)

\* C13: find_latex_equations never raises: it returns, and for a missing or
\* empty text and for a text without a delimiter match both lists of the
\* result are empty.
C13_ScanReturnsEmptyWithoutMatch ==
    scan_result.outcome # "pending" =>
        /\ scan_result.outcome = "returned"
        /\ (scan_input.none \/ scan_input.s = "" \/ ~HasDelimiterPair(scan_input.s))
              => /\ scan_result.result.equations = << >>
                 /\ scan_result.result.matches = << >>

\* a scan of a text that holds an opening delimiter and no closing one
C13_Witness ==
    /\ scan_result.outcome = "returned"
    /\ ~scan_input.none
    /\ scan_input.s = "x\\[x"
    /\ scan_result.result = NoEquations

-----------------------------------------------------------------------------
(* The renderer called on its own, and the filter of copy_images applied to *)
(* the picture of the engine                                                *)

RenderModes == Modes \cup {"Other"}

\* a call render_latex_to_image(eq, color, font_size, dpi, mode)
RenderLatexToImage ==
    /\ render_out.outcome = "pending"
    /\ render_out' = render_latex_to_image(engine_out, render_mode)
    /\ UNCHANGED <<render_mode, engine_out, kept>>

\* the picture of the engine as an image object
EngineImage(r) ==
    [none |-> ~(r.engine = "image" /\ r.bbox), src |-> 0, width |-> r.width,
     height |-> r.height, opaque |-> r.opaque]

\* copy_images lines 564-585 on a list holding the picture of the engine
FilterImages ==
    /\ ~kept.done
    /\ kept' = [done |-> TRUE, images |-> ValidImages(<< EngineImage(engine_out) >>)]
    /\ UNCHANGED <<render_mode, engine_out, render_out>>

RenderInit ==
    /\ render_mode \in RenderModes
    /\ engine_out \in EngineOutcomes(render_mode)
    /\ render_out = [outcome |-> "pending", image |-> NoneImage]
    /\ kept = [done |-> FALSE, images |-> << >>]

SpecRenderInit ==
    PipelineInit /\ PayloadIdle /\ TwoPassIdle /\ B64Idle /\ ScanIdle /\ RenderInit /\ CropIdle /\ MonitorIdle
SpecRenderNext ==
    \/ RenderLatexToImage
          /\ UNCHANGED <<pipeline_vars, payload_vars, twopass_vars, b64_vars, scan_vars, crop_vars, monitor_vars>>
    \/ FilterImages
          /\ UNCHANGED <<pipeline_vars, payload_vars, twopass_vars, b64_vars, scan_vars, crop_vars, monitor_vars>>
SpecRender == SpecRenderInit /\ [][SpecRenderNext]_vars

\* C17: every image the renderer returns, in either mode, is at most 1800
\* wide and at most 600 high, also when the cropped picture exceeds both.
C17_ReturnedImageWithinMaxima ==
    (render_out.outcome = "returned" /\ ~render_out.image.none) =>
        /\ render_out.image.width <= max_width
        /\ render_out.image.height <= max_height

\* C18: an image with fewer than 100 non-transparent pixels is never returned
\* by the renderer and never kept by the filter of copy_images, whatever its
\* size; a picture with 100 or more of them is not classified empty: the
\* renderer returns it and the filter keeps it.
C18_EmptyBelowThresholdOnly ==
    /\ (render_out.outcome = "returned" /\ ~render_out.image.none)
          => render_out.image.opaque >= EmptyThreshold
    /\ \A i \in 1..Len(kept.images) : kept.images[i].opaque >= EmptyThreshold
    /\ (/\ render_out.outcome = "returned"
        /\ render_mode \in Modes
        /\ engine_out.engine = "image"
        /\ engine_out.bbox
        /\ engine_out.opaque >= EmptyThreshold)
          => ~render_out.image.none
    /\ (/\ kept.done
        /\ engine_out.engine = "image"
        /\ engine_out.bbox
        /\ engine_out.opaque >= EmptyThreshold)
          => Len(kept.images) = 1

\* a picture of exactly 100 non-transparent pixels went through the renderer
\* and through the filter
C18_Witness ==
    /\ render_out.outcome = "returned"
    /\ kept.done
    /\ engine_out.engine = "image"
    /\ engine_out.bbox
    /\ render_mode = "Standalone"
    /\ engine_out.opaque = EmptyThreshold
    /\ ~render_out.image.none
    /\ Len(kept.images) = 1

-----------------------------------------------------------------------------
(* Properties of the scanner and the composer, checked under Spec *)

Matches == equations.matches

\* the fragment of a finished run that composed text and images
Composed == pc = "done" /\ ~only_images /\ html_content # << >>

\* C1: for every input text the 'matches' list of find_latex_equations is
\* sorted in non-decreasing order of 'start', and every match satisfies
\* 0 <= start < end <= len(text).
C1_ScanSortedInBounds ==
    /\ \A i \in 1..Len(Matches) :
          /\ 0 <= Matches[i].start
          /\ Matches[i].start < Matches[i].end
          /\ Matches[i].end <= Len(text)
    /\ \A i \in 1..(Len(Matches) - 1) : Matches[i].start <= Matches[i + 1].start

\* a scan in which a later pattern matched before an earlier one, so that
\* the sort changed the order of the pool
C1_Witness ==
    /\ pc = "render"
    /\ Len(Matches) >= 2
    /\ text = "\\begin{equation}z\\end{equation}\\(y\nw\\)"
    /\ Matches[1].is_display
    /\ ~Matches[2].is_display

\* the cursor before span k: 0 before the first, the end of span k-1 after
CursorBefore(k) == IF k = 1 THEN 0 ELSE Matches[k - 1].end

AllRendered == Matches # << >> /\ Len(images) = Len(Matches)

\* C2: with only_images off, when every span has a rendered valid image, the
\* fragment is the style block, then for each span in ascending start order a
\* text run holding original_text[last_pos:span.start] followed by that span's
\* image (last_pos being 0 at first and the end of the previous span after),
\* then one final text run holding original_text[last_pos:]; for a text with
\* one span between two pieces of text the runs are text, image, text.
C2_ComposeInOrder ==
    (Composed /\ AllRendered) =>
        LET n == Len(Matches)
            runs == html_content
        IN  /\ Len(runs) = 2 * n + 2
            /\ runs[1].kind = "style"
            /\ \A k \in 1..n :
                  /\ runs[2 * k].kind = "text"
                  /\ runs[2 * k].html =
                        EscapeSegment(Slice(text, CursorBefore(k), Matches[k].start))
                  /\ runs[2 * k + 1].kind = "img"
                  /\ runs[2 * k + 1].src = k
            /\ runs[2 * n + 2].kind = "text"
            /\ runs[2 * n + 2].html = EscapeSegment(SliceFrom(text, Matches[n].end))
            /\ (text = "x\\(y\nw\\)x" =>
                   /\ n = 1
                   /\ runs[2].html = "x"
                   /\ runs[4].html = "x")

\* a finished run over text, equation, text with the equation rendered
C2_Witness ==
    /\ Composed
    /\ AllRendered
    /\ text = "x\\(y\nw\\)x"
    /\ Len(html_content) = 4

\* C3: when the render of some span fails and the render of a later span
\* succeeds, every image that is emitted stands at the position of the span
\* it was rendered from, never at the position of an earlier, failed span.
C3_ImagesStandAtOwnSpan ==
    Composed =>
        \A r \in 1..Len(html_content) :
            html_content[r].kind = "img" => html_content[r].src = html_content[r].at

\* the source offsets held by the text runs, in run order
RECURSIVE RunOffsets(_)
RunOffsets(runs) ==
    IF runs = << >> THEN << >>
    ELSE (IF Head(runs).kind = "text" /\ Head(runs).lo < Head(runs).hi
          THEN [i \in 1..(Head(runs).hi - Head(runs).lo) |-> Head(runs).lo + i - 1]
          ELSE << >>)
         \o RunOffsets(Tail(runs))

InsideSomeSpan(off) ==
    \E i \in 1..Len(Matches) : Matches[i].start <= off /\ off < Matches[i].end

\* the source offsets outside all spans, ascending
OutsideOffsets ==
    SelectSeq([i \in 1..Len(text) |-> i - 1], LAMBDA off : ~InsideSomeSpan(off))

\* C4: for every text and the span list of the scanner, overlapping and nested
\* spans included, the text runs of the fragment, read in order, hold every
\* source character outside all spans exactly once and no source character
\* inside a span.
C4_TextRunsCoverOutside ==
    Composed => RunOffsets(html_content) = OutsideOffsets

InResult(k, m) ==
    \E i \in 1..Len(Matches) :
        /\ Matches[i].start = m.start
        /\ Matches[i].end = m.end
        /\ Matches[i].raw_match = m.raw
        /\ Matches[i].is_display = patterns[k].is_display

\* C10: a delimiter match of a grammar gives a span if and only if its
\* trimmed inner content is non-empty and is not a single backslash.
C10_AcceptsIffNotDegenerate ==
    pc = "render" =>
        \A k \in 1..Len(patterns) :
            LET found == FindIter(text, patterns[k].open, patterns[k].close, 1)
            IN  \A f \in 1..Len(found) :
                    InResult(k, found[f]) <=>
                        (Strip(found[f].group) # "" /\ Strip(found[f].group) # "\\")

\* C11: in the result of find_latex_equations 'equations' and 'matches' have
\* the same length and equations[i] is the content of matches[i] for every
\* i, also when the sort reorders the matches of the patterns.
C11_EquationsAlignedWithMatches ==
    /\ Len(equations.equations) = Len(Matches)
    /\ \A i \in 1..Len(Matches) : equations.equations[i] = Matches[i].equation

\* a scan of two equations with different contents that the sort swapped
C11_Witness ==
    /\ pc = "render"
    /\ text = "\\begin{equation}z\\end{equation}\\(y\nw\\)x"
    /\ equations.equations = << "z", "y w" >>
    /\ Matches[2].start > Matches[1].start

\* the matches re.finditer yields for pattern k whose stripped group passes
\* `if equation:`
AcceptedOf(k) ==
    LET found == FindIter(text, patterns[k].open, patterns[k].close, 1)
    IN  {f \in 1..Len(found) : Accepts(Strip(found[f].group))}

\* C12: the scanner pools the accepted matches of all five patterns and only
\* sorts them: a match lying inside or overlapping a match of another pattern
\* is retained as well, none is removed or merged.
C12_AllMatchesRetained ==
    (pc = "render" /\ render_i = 1) =>
        /\ \A k \in 1..Len(patterns) :
              LET found == FindIter(text, patterns[k].open, patterns[k].close, 1)
              IN  \A f \in AcceptedOf(k) : InResult(k, found[f])
        /\ Len(Matches) = Cardinality(AcceptedOf(1)) + Cardinality(AcceptedOf(2))
                          + Cardinality(AcceptedOf(3)) + Cardinality(AcceptedOf(4))
                          + Cardinality(AcceptedOf(5))

\* a scan of an inline match inside a bracket-delimited display match
C12_Witness ==
    /\ pc = "render"
    /\ text = "\\[\\(y\nw\\)\\]"
    /\ Len(Matches) = 2
    /\ Matches[1].raw_match = "\\[\\(y\nw\\)\\]"
    /\ Matches[2].raw_match = "\\(y\nw\\)"
    /\ Matches[1].start < Matches[2].start
    /\ Matches[2].end < Matches[1].end

\* the pattern a raw match was made by, read off its opening delimiter ("$$"
\* before "$": the group of a "$" match holds no "$")
PatternOfRaw(raw) ==
    IF StartsWithAt(raw, 1, "$$") THEN 3
    ELSE CHOOSE k \in 1..Len(patterns) : StartsWithAt(raw, 1, patterns[k].open)

\* raw with its opening and its closing delimiter removed
Undelimited(raw) ==
    LET k == PatternOfRaw(raw)
    IN  Slice(raw, Len(patterns[k].open), Len(raw) - Len(patterns[k].close))

\* C14: the content of every span is its raw_match with the opening and the
\* closing delimiter removed and leading and trailing whitespace trimmed,
\* nothing else changed, also when the content spans several lines.
C14_ContentIsTrimmedInner ==
    \A i \in 1..Len(Matches) :
        Matches[i].equation = Strip(Undelimited(Matches[i].raw_match))

\* the escaping the text runs are said to get: the three characters & < >
\* and the line breaks, nothing else
EscapeThree(seg) ==
    Replace(Replace(Replace(Replace(Replace(seg, "&", "&amp;"), "<", "&lt;"),
                            ">", "&gt;"), "\r\n", "<br>"), "\n", "<br>")

\* C15: every text run holds its source segment with exactly the characters
\* & < > replaced by their entities and each line break replaced by <br>;
\* no other source character is altered.
C15_TextRunEscapesThree ==
    Composed =>
        \A r \in 1..Len(html_content) :
            html_content[r].kind = "text" =>
                html_content[r].html =
                    EscapeThree(Slice(text, html_content[r].lo, html_content[r].hi))

\* C16: with only_images set the composed fragment holds no text run,
\* neither between the images nor at the end, and holds the images of all
\* valid renders in span order.
C16_OnlyImagesNoText ==
    (pc = "done" /\ only_images /\ html_content # << >>) =>
        /\ Len(html_content) = 1 + Len(images)
        /\ html_content[1].kind = "style"
        /\ \A k \in 1..Len(images) :
              /\ html_content[k + 1].kind = "img"
              /\ html_content[k + 1].src = images[k].src
        /\ \A k \in 1..(Len(images) - 1) : images[k].src < images[k + 1].src

\* a finished only-images run over text, equation, equation: two images
C16_Witness ==
    /\ pc = "done"
    /\ only_images
    /\ text = "x\\(y\nw\\)\\begin{equation}z\\end{equation}"
    /\ Len(images) = 2
    /\ Len(html_content) = 3

\* C19: every render call returns: a run that has begun to render gets
\* through its render loop (or ends in the except clause), it never blocks
\* forever on one equation.
C19_RenderAlwaysReturns ==
    (pc = "render") ~>
        (pc = "done" \/ (pc = "render" /\ render_i > Len(equations.equations)))

\* the handler ended in its except clause
HandlerRaised == status = "Render input failed"

\* C20: a failed render is a None that is returned, never an exception: the
\* except clause of the handler is only reached after a render that returned
\* an image; the loop takes the spans one at a time in scan order and a run
\* that reaches its end has tried every span; the run reports a failure to
\* render only if no equation rendered, and copies the images otherwise.
C20_RenderFailuresAreLocal ==
    /\ HandlerRaised =>
          (images # << >> /\ images[Len(images)].src = render_i)
    /\ \A k \in 1..Len(images) :
          /\ images[k].src \in 1..Len(Matches)
          /\ images[k].src <= render_i
          /\ k < Len(images) => images[k].src < images[k + 1].src
    /\ (pc = "done" /\ ~HandlerRaised) => render_i = Len(Matches) + 1
    /\ (pc = "done" /\ status = "No valid images rendered") => images = << >>
    /\ (pc = "done" /\ ~HandlerRaised /\ images # << >>) =>
          /\ last_original_text = text
          /\ html_content # << >>
          /\ status = "Copied " \o ToString(Len(images)) \o " images with text"

\* a finished run in which the first of two renders failed and the second
\* gave the image that was copied
C20_Witness ==
    /\ pc = "done"
    /\ ~HandlerRaised
    /\ Len(Matches) = 2
    /\ Len(images) = 1
    /\ images[1].src = 2
    /\ html_content # << >>

\* the clipboard before the run
ClipboardBefore == [kind |-> "other", fragment |-> << >>]

\* the run has called set_clipboard_html and the backend failed
BackendFailed == html_content # << >> /\ clipboard.kind # "html"

\* C21: a run that ends without any valid image never enters the composer
\* and never calls the clipboard backend (the clipboard and the stored spans
\* and images are those from before the run), and it reports "No valid
\* images rendered" with an error dialog; a run in which the backend failed
\* reports something else.
C21_NoValidImageNoClipboardCall ==
    /\ (pc = "done" /\ text # "" /\ ~HandlerRaised
            /\ ValidImages(images) = << >>) =>
          /\ html_content = << >>
          /\ clipboard = ClipboardBefore
          /\ last_images = << >>
          /\ last_original_text = ""
          /\ status = "No valid images rendered"
          /\ dialog = "Failed to render any valid images"
    /\ (pc = "done" /\ BackendFailed) =>
          /\ status # "No valid images rendered"
          /\ dialog # "Failed to render any valid images"

\* a finished run over a text with an equation whose render gave no image
C21_Witness ==
    /\ pc = "done"
    /\ Len(Matches) >= 1
    /\ images = << >>
    /\ status = "No valid images rendered"
    /\ clipboard = ClipboardBefore

\* the status or dialog text s says that images were copied
SaysCopied(s) == StartsWithAt(s, 1, "Copied ")

\* C22: a run of Render Input in which the clipboard backend failed ends
\* reporting the failure: neither its final status nor its dialog says that
\* images were copied.
C22_BackendFailureIsReported ==
    (pc = "done" /\ BackendFailed) =>
        (~SaysCopied(status) /\ ~SaysCopied(dialog))

\* C23: set_clipboard_html is all-or-nothing: after a run that called it the
\* clipboard holds either the new fragment or what it held before the call.
C23_ClipboardAllOrNothing ==
    (pc = "done" /\ html_content # << >>) =>
        \/ clipboard = [kind |-> "html", fragment |-> html_content]
        \/ clipboard = ClipboardBefore

-----------------------------------------------------------------------------
(* The crop box of the renderer: utils/image_utils.py lines 66-74, 152-160 *)

MinPadding == 5
PaddingDivisor == 20
MinDpi == 100
MaxDpi == 600
\* side of the small pictures, whose bounding boxes are all enumerated
CropSide == 12

\* line 69 (155): padding = max(5, dpi // 20)
padding(dpi) ==
    IF MinPadding > dpi \div PaddingDivisor THEN MinPadding
    ELSE dpi \div PaddingDivisor

\* The box widened by the padding and not clipped to the picture.
CropBoxUnclipped(img, dpi) ==
    << img.bbox[1] - padding(dpi), img.bbox[2] - padding(dpi),
       img.bbox[3] + padding(dpi), img.bbox[4] + padding(dpi) >>
\* lines 68-73 (154-159): the box (left, top, right, bottom) given to
\* img.crop for the picture img with bounding box img.bbox
CropBox(img, dpi) ==
    LET left == img.bbox[1]
        top == img.bbox[2]
        right == img.bbox[3]
        bottom == img.bbox[4]
        Max(a, b) == IF a > b THEN a ELSE b
        Min(a, b) == IF a < b THEN a ELSE b
    IN  << Max(0, left - padding(dpi)), Max(0, top - padding(dpi)),
           Min(img.width, right + padding(dpi)),
           Min(img.height, bottom + padding(dpi)) >>

\* the dpi values validate_inputs lets through, at the steps of the padding
Dpis == {MinDpi, MinDpi + PaddingDivisor - 1, MinDpi + PaddingDivisor, MaxDpi}

\* sides of the pictures: one pixel, a small side, and one wider than twice
\* the largest padding
Sides == {1, CropSide, 2 * padding(MaxDpi) + 1}

\* the coordinates tried for the bounding box along a side
Coords(side) ==
    IF side <= CropSide THEN 0..side
    ELSE {0, padding(MaxDpi) - 1, padding(MaxDpi), padding(MaxDpi) + 1, side}

\* the pictures with every bounding box img.getbbox() can give (a non-empty
\* box inside the picture, right and bottom exclusive) at the dpi values of
\* Dpis, and the picture of one pixel at every dpi
CropInit ==
    /\ \/ \E w \in Sides, h \in Sides, d \in Dpis :
          \E l \in Coords(w), r \in Coords(w), t \in Coords(h), b \in Coords(h) :
             /\ l < r
             /\ t < b
             /\ crop_in = [width |-> w, height |-> h, bbox |-> <<l, t, r, b>>,
                           dpi |-> d]
       \/ \E d \in MinDpi..MaxDpi :
             crop_in = [width |-> 1, height |-> 1, bbox |-> <<0, 0, 1, 1>>,
                        dpi |-> d]
    /\ crop_box = << >>

\* lines 66-74: the bounding box is found and the picture is cropped
Crop ==
    /\ crop_box = << >>
    /\ crop_box' = CropBox(crop_in, crop_in.dpi)
    /\ UNCHANGED crop_in

SpecCropInit ==
    CropInit /\ PipelineInit /\ PayloadIdle /\ TwoPassIdle /\ B64Idle /\ ScanIdle
        /\ RenderIdle /\ MonitorIdle
SpecCropNext ==
    Crop /\ UNCHANGED <<pipeline_vars, payload_vars, twopass_vars, b64_vars,
                         scan_vars, render_vars, monitor_vars>>
SpecCrop == SpecCropInit /\ [][SpecCropNext]_vars

\* C26: the crop box contains the bounding box, lies inside the picture
\* with left < right and top < bottom, and each of its sides stands the
\* padding away from the bounding box unless the edge of the picture is
\* nearer, where it stands on the edge; the padding is max(5, dpi // 20) and
\* is at least 5 for every dpi from 100 to 600.
C26_CropBoxPaddedAndClipped ==
    /\ crop_in.dpi \in 100..600
    /\ padding(crop_in.dpi) >= 5
    /\ padding(crop_in.dpi) >= crop_in.dpi \div 20
    /\ padding(crop_in.dpi) = 5 \/ padding(crop_in.dpi) = crop_in.dpi \div 20
    /\ crop_box # << >> =>
          LET bb == crop_in.bbox
              p == padding(crop_in.dpi)
          IN  /\ crop_box[1] <= bb[1] /\ crop_box[2] <= bb[2]
              /\ crop_box[3] >= bb[3] /\ crop_box[4] >= bb[4]
              /\ 0 <= crop_box[1] /\ crop_box[1] < crop_box[3]
              /\ crop_box[3] <= crop_in.width
              /\ 0 <= crop_box[2] /\ crop_box[2] < crop_box[4]
              /\ crop_box[4] <= crop_in.height
              /\ IF bb[1] >= p THEN crop_box[1] = bb[1] - p ELSE crop_box[1] = 0
              /\ IF bb[2] >= p THEN crop_box[2] = bb[2] - p ELSE crop_box[2] = 0
              /\ IF bb[3] + p <= crop_in.width THEN crop_box[3] = bb[3] + p
                 ELSE crop_box[3] = crop_in.width
              /\ IF bb[4] + p <= crop_in.height THEN crop_box[4] = bb[4] + p
                 ELSE crop_box[4] = crop_in.height

\* a crop at the largest padding whose left side was clipped to the edge
\* and whose right side was widened by the whole padding
C26_Witness ==
    /\ crop_box # << >>
    /\ crop_in.dpi = MaxDpi
    /\ crop_in.bbox[1] > 0
    /\ crop_box[1] = 0
    /\ crop_box[3] = crop_in.bbox[3] + 30
    /\ crop_box[3] < crop_in.width

-----------------------------------------------------------------------------
(* Clipboard monitoring: gui/app_gui.py toggle_monitoring,                 *)
(* start_monitor_thread, monitor_clipboard, save_as_docx, on_closing       *)

\* clicks that start or stop monitoring
MaxClicks == 3
\* clipboard changes made by other programs
MaxCopies == 2

\* line 645: last_sequence = None
NoSequence == -1

\* the texts other programs put on the clipboard: no equation, one
\* equation before a written segment, two equations between blank and
\* written segments
MonitorTexts == {"x", "\\(y\\) v ", " \\(y\\)w\\[z\\] \n"}
OtherContents == {[kind |-> "text", text |-> t] : t \in MonitorTexts}

\* line 655: find_latex_equations for each of the texts
MonitorScans == [t \in MonitorTexts |-> find_latex_equations(t)]

\* utils/clipboard_utils.py get_clipboard_text: the text of the clipboard,
\* None when it holds no text format
NoText == [none |-> TRUE, s |-> ""]
get_clipboard_text(clip) ==
    IF clip.kind = "text" THEN [none |-> FALSE, s |-> clip.text] ELSE NoText

\* The test of line 650 always taken.
SequenceAlwaysChanged(current, last) == TRUE
\* line 650: current_sequence != last_sequence
SequenceChanged(current, last) == current # last

\* what set_clipboard_html adds to the sequence number: EmptyClipboard and
\* SetClipboardData each change the clipboard
SequenceSteps(c) ==
    CASE c = "ok" -> 2
      [] c = "set_fails" -> 1
      [] OTHER -> 0

\* a thread at the start of monitor_clipboard (lines 645-646)
\* runs counts the pipeline runs the thread has started
NewThread == [state |-> "running", last_sequence |-> NoSequence, runs |-> 0]

\* the thread is inside the loop of monitor_clipboard
InLoop(th) == th.state = "running" \/ th.state = "blocked"

\* lines 299-332
ToggleMonitoring ==
    /\ ~closed
    /\ clicks < MaxClicks
    /\ IF ~monitoring
       THEN \E valid \in BOOLEAN :
               IF ~valid
               THEN /\ dialog' = "Invalid Input"
                    /\ UNCHANGED <<monitoring, status, stop_event, scheduled,
                                   clicks>>
               ELSE /\ monitoring' = TRUE
                    /\ status' = "Monitoring"
                    /\ stop_event' = FALSE
                    /\ scheduled' = scheduled + 1
                    /\ clicks' = clicks + 1
                    /\ UNCHANGED dialog
       ELSE /\ monitoring' = FALSE
            /\ status' = "Stopped"
            /\ stop_event' = TRUE
            /\ clicks' = clicks + 1
            /\ UNCHANGED <<dialog, scheduled>>
    /\ UNCHANGED <<pc, only_images, text, equations, render_i, images,
                   html_content, last_images, last_original_text,
                   last_equations, clipboard, mode, threads, clip_seq, copies,
                   docx, closed>>

\* lines 334-336: the callback of root.after(1000, ...) fires
StartMonitorThread ==
    /\ ~closed
    /\ scheduled > 0
    /\ scheduled' = scheduled - 1
    /\ threads' = Append(threads, NewThread)
    /\ UNCHANGED <<pipeline_vars, monitoring, stop_event, clip_seq, copies,
                   clicks, docx, closed>>

\* another program changes the clipboard
OtherProgramCopies ==
    /\ ~closed
    /\ copies < MaxCopies
    /\ copies' = copies + 1
    /\ \E c \in OtherContents : clipboard' = c
    /\ clip_seq' = clip_seq + 1
    /\ UNCHANGED <<pc, only_images, text, equations, render_i, images,
                   html_content, last_images, last_original_text,
                   last_equations, status, dialog, mode, monitoring,
                   stop_event, scheduled, threads, clicks, docx, closed>>

\* the results of the calls of render_latex_to_image in mode m
Calls(m) == {render_latex_to_image(r, m) : r \in PipelineEngineOutcomes(m)}

\* lines 658-669: the images list after the calls; a None and an exception
\* are skipped
RECURSIVE RenderedImages(_, _)
RenderedImages(calls, k) ==
    IF k > Len(calls) THEN << >>
    ELSE (IF calls[k].outcome = "returned" /\ ~calls[k].image.none
          THEN << [calls[k].image EXCEPT !.src = k] >>
          ELSE << >>)
         \o RenderedImages(calls, k + 1)

\* lines 647-684: one iteration of the loop of thread i, from the test of
\* the stop event to the sleep
MonitorIteration(i) ==
    /\ ~closed
    /\ i \in 1..Len(threads)
    /\ threads[i].state = "running"
    /\ UNCHANGED <<pc, only_images, render_i, dialog, mode, monitoring,
                   stop_event, scheduled, copies, clicks, docx, closed>>
    /\ IF stop_event
       THEN /\ threads' = [threads EXCEPT ![i].state = "exited"]
            /\ UNCHANGED <<text, equations, images, html_content, last_images,
                           last_original_text, last_equations, status,
                           clipboard, clip_seq>>
       ELSE \/ \* GetClipboardSequenceNumber raises: lines 681-684
               /\ status' = "Error in monitoring"
               /\ UNCHANGED <<text, equations, images, html_content,
                              last_images, last_original_text, last_equations,
                              clipboard, clip_seq, threads>>
            \/ /\ ~SequenceChanged(clip_seq, threads[i].last_sequence)
               /\ UNCHANGED <<text, equations, images, html_content,
                              last_images, last_original_text, last_equations,
                              status, clipboard, clip_seq, threads>>
            \/ /\ SequenceChanged(clip_seq, threads[i].last_sequence)
               /\ get_clipboard_text(clipboard).none
               /\ threads' = [threads EXCEPT ![i].last_sequence = clip_seq]
               /\ status' = "Clipboard empty"
               /\ UNCHANGED <<text, equations, images, html_content,
                              last_images, last_original_text, last_equations,
                              clipboard, clip_seq>>
            \/ /\ SequenceChanged(clip_seq, threads[i].last_sequence)
               /\ ~get_clipboard_text(clipboard).none
               /\ LET t == get_clipboard_text(clipboard).s
                      eqs == MonitorScans[t]
                      n == Len(eqs.equations)
                      polled == [threads EXCEPT
                                    ![i].last_sequence = clip_seq,
                                    ![i].runs = @ + 1]
                  IN  /\ text' = t
                      /\ equations' = eqs
                      /\ IF n = 0
                         THEN /\ status' = "No equations found"
                              /\ images' = << >>
                              /\ threads' = polled
                              /\ UNCHANGED <<html_content, last_images,
                                             last_original_text, last_equations,
                                             clipboard, clip_seq>>
                         ELSE \E calls \in [1..n -> Calls(mode)] :
                              IF \E k \in 1..n : calls[k].outcome = "blocked"
                              THEN /\ threads' = [polled EXCEPT ![i].state = "blocked"]
                                   /\ images' = << >>
                                   /\ UNCHANGED <<html_content, last_images,
                                                  last_original_text,
                                                  last_equations, status,
                                                  clipboard, clip_seq>>
                              ELSE /\ threads' = polled
                                   /\ images' = RenderedImages(calls, 1)
                                   /\ IF images' = << >>
                                      THEN /\ status' = "No valid images rendered"
                                           /\ UNCHANGED <<html_content, last_images,
                                                          last_original_text,
                                                          last_equations,
                                                          clipboard, clip_seq>>
                                      ELSE \E clip \in ClipOutcomes :
                                           LET r == CopyImages(images', FALSE, t, eqs, clip)
                                           IN  /\ html_content' = r.html_content
                                               /\ last_images' = r.last_images
                                               /\ last_original_text' = r.last_original_text
                                               /\ last_equations' = r.last_equations
                                               /\ status' = r.status
                                               /\ clipboard' = r.clipboard
                                               /\ clip_seq' = clip_seq + SequenceSteps(clip)

\* the paragraph save_as_docx adds for a text segment starting at offset lo
DocxText(segment, lo) == [kind |-> "text", text |-> segment, lo |-> lo]
\* the picture save_as_docx adds for img in the iteration of match number at
DocxPicture(img, at) == [kind |-> "img", src |-> img.src, at |-> at]

\* The loop taking the first stored image for every span.
RECURSIVE DocxLoopFirstImage(_, _, _, _, _, _)
DocxLoopFirstImage(original_text, matches, imgs, k, last_pos, img_index) ==
    IF k > Len(matches)
    THEN LET rest == Strip(SliceFrom(original_text, last_pos))
         IN  IF rest # "" THEN << DocxText(rest, last_pos) >> ELSE << >>
    ELSE LET m == matches[k]
             segment == Slice(original_text, last_pos, m.start)
         IN  (IF Strip(segment) # "" THEN << DocxText(segment, last_pos) >>
              ELSE << >>)
             \o (IF imgs # << >> THEN << DocxPicture(imgs[1], k) >> ELSE << >>)
             \o DocxLoopFirstImage(original_text, matches, imgs, k + 1,
                                   m.end, img_index)

\* lines 440-468: the walk over the stored spans
RECURSIVE DocxLoop(_, _, _, _, _, _)
DocxLoop(original_text, matches, imgs, k, last_pos, img_index) ==
    IF k > Len(matches)
    THEN LET rest == Strip(SliceFrom(original_text, last_pos))
         IN  IF rest # "" THEN << DocxText(rest, last_pos) >> ELSE << >>
    ELSE LET m == matches[k]
             segment == Slice(original_text, last_pos, m.start)
             has == img_index < Len(imgs)
         IN  (IF Strip(segment) # "" THEN << DocxText(segment, last_pos) >>
              ELSE << >>)
             \o (IF has THEN << DocxPicture(imgs[img_index + 1], k) >> ELSE << >>)
             \o DocxLoop(original_text, matches, imgs, k + 1, m.end,
                         IF has THEN img_index + 1 ELSE img_index)

\* line 422: the export writes the images only
ImagesOnlyExport ==
    only_images \/ last_original_text = "" \/ last_equations.matches = << >>

\* lines 402-481: the Save as DOCX button; the button is disabled while
\* monitoring is on
SaveAsDocx ==
    /\ ~closed
    /\ ~monitoring
    /\ IF last_images = << >>
       THEN /\ dialog' = "No Images"
            /\ UNCHANGED docx
       ELSE \E chosen \in BOOLEAN :
               IF ~chosen THEN UNCHANGED <<docx, dialog>>
               ELSE /\ dialog' = "Save Successful"
                    /\ docx' =
                         IF ImagesOnlyExport
                         THEN [outcome |-> "images",
                               items |-> [j \in 1..Len(last_images) |->
                                             DocxPicture(last_images[j], 0)]]
                         ELSE [outcome |-> "text and images",
                               items |-> DocxLoop(last_original_text,
                                                  last_equations.matches,
                                                  last_images, 1, 0, 0)]
    /\ UNCHANGED <<pc, only_images, text, equations, render_i, images,
                   html_content, last_images, last_original_text,
                   last_equations, status, clipboard, mode, monitoring,
                   stop_event, scheduled, threads, clip_seq, copies, clicks,
                   closed>>

\* lines 483-489: the window is closed; the process ends with the main loop
\* and its daemon threads with it
OnClosing ==
    /\ ~closed
    /\ closed' = TRUE
    /\ stop_event' = (stop_event \/ monitoring)
    /\ scheduled' = 0
    /\ threads' = [j \in 1..Len(threads) |->
                      [threads[j] EXCEPT !.state = "exited"]]
    /\ UNCHANGED <<pipeline_vars, monitoring, clip_seq, copies, clicks, docx>>

\* load_defaults (lines 48-70) sets the mode and the "Only Images" box from
\* configs/defaults.json
MonitorPipelineInit ==
    /\ pc = "idle"
    /\ only_images \in BOOLEAN
    /\ text = ""
    /\ equations = NoEquations
    /\ render_i = 1
    /\ images = << >>
    /\ html_content = << >>
    /\ last_images = << >>
    /\ last_original_text = ""
    /\ last_equations = NoEquations
    /\ status = "Idle"
    /\ dialog = ""
    /\ clipboard = [kind |-> "other", fragment |-> << >>]
    /\ mode \in Modes

SpecMonitorInit ==
    MonitorPipelineInit /\ PayloadIdle /\ TwoPassIdle /\ B64Idle /\ ScanIdle
        /\ RenderIdle /\ CropIdle /\ MonitorIdle

idle_vars == <<payload_vars, twopass_vars, b64_vars, scan_vars, render_vars,
               crop_vars>>

\* one monitoring session: monitoring is started once, other programs
\* change the clipboard, monitoring is stopped, the document is saved
SpecMonitorNext ==
    \/ (monitoring \/ clicks = 0) /\ ToggleMonitoring /\ UNCHANGED idle_vars
    \/ StartMonitorThread /\ UNCHANGED idle_vars
    \/ OtherProgramCopies /\ UNCHANGED idle_vars
    \/ \E i \in 1..Len(threads) : MonitorIteration(i) /\ UNCHANGED idle_vars
    \/ SaveAsDocx /\ UNCHANGED idle_vars
    \/ OnClosing /\ UNCHANGED idle_vars

SpecMonitor == SpecMonitorInit /\ [][SpecMonitorNext]_vars

\* C24: a thread starts a pipeline run only in an iteration that reads a
\* sequence number different from the one its previous poll recorded, it
\* records the number read, and it starts one run in that iteration; an
\* iteration that reads the recorded number starts none.
C24_OneRunPerDetectedChange ==
    [][\A i \in 1..Len(threads) :
          threads'[i].runs # threads[i].runs =>
             /\ threads[i].last_sequence # clip_seq
             /\ threads'[i].last_sequence = clip_seq
             /\ threads'[i].runs = threads[i].runs + 1]_vars

\* a thread that made a run for each of two clipboard changes and whose
\* last poll read the current sequence number
C24_Witness ==
    \E i \in 1..Len(threads) :
       /\ threads[i].runs = 2
       /\ threads[i].last_sequence = clip_seq
       /\ copies = 2

\* what the application stores before its first run (lines 27-30)
NothingStored ==
    [html_content |-> << >>, last_images |-> << >>, last_original_text |-> "",
     last_equations |-> NoEquations, status |-> "Idle",
     clipboard |-> ClipboardBefore, called |-> FALSE]

\* some thread starts a pipeline run in this step
RunStarts == \E i \in 1..Len(threads) : threads'[i].runs # threads[i].runs

\* C25: the fragment a run composes, and the spans and images it stores,
\* are those the same inputs (text, spans, rendered images, "Only Images")
\* give in an application that has made no run before: nothing stored by
\* earlier runs enters the fragment.
C25_FragmentFromRunInputsAlone ==
    [][(RunStarts /\ images' # << >>) =>
          LET first == CopyImagesFrom(NothingStored, images', FALSE, text',
                                      equations', only_images', "ok")
          IN  /\ html_content' = first.html_content
              /\ last_images' = first.last_images
              /\ last_original_text' = first.last_original_text
              /\ last_equations' = first.last_equations]_vars

\* the second of two runs that both copied their images: the clipboard
\* changed twice by other programs and twice through set_clipboard_html
C25_Witness ==
    /\ Len(threads) = 1
    /\ threads[1].runs = 2
    /\ copies = 2
    /\ clip_seq = 1 + copies + 2 * SequenceSteps("ok")
    /\ clipboard.kind = "html"
    /\ last_original_text = text
    /\ Len(last_images) = 1
    /\ Len(equations.matches) = 2

\* what the composer makes of the stored text, spans and images
ComposedFromStored ==
    ComposeLoop(last_original_text, last_equations.matches, last_images, 1, 0, 0)

\* the runs of the composer that show in a document: the images and the
\* text runs whose segment is not blank
ShownRuns ==
    SelectSeq(ComposedFromStored,
              LAMBDA r : r.kind = "img"
                         \/ Strip(Slice(last_original_text, r.lo, r.hi)) # "")

\* the fragment on hand was composed with text
ComposedWithText == \E j \in 1..Len(html_content) : html_content[j].kind = "text"

\* C27: an export with text walks the stored spans as the composer does: its
\* items are, in the same order, the images of the composer at the same
\* spans and the text segments of the composer that are not blank (the
\* segment after the last span without its outer blanks); the fragment of
\* the last run, when composed with text, is the one the composer makes of
\* the stored spans and images.
C27_ExportWalksStoredSpans ==
    [][(docx' # docx /\ docx'.outcome = "text and images") =>
          LET items == docx'.items
          IN  /\ Len(items) = Len(ShownRuns)
              /\ \A j \in 1..Len(items) :
                    /\ items[j].kind = ShownRuns[j].kind
                    /\ items[j].kind = "img" =>
                          /\ items[j].src = ShownRuns[j].src
                          /\ items[j].at = ShownRuns[j].at
                    /\ items[j].kind = "text" =>
                          /\ items[j].lo = ShownRuns[j].lo
                          /\ items[j].text =
                                IF ShownRuns[j].hi = Len(last_original_text)
                                THEN Strip(SliceFrom(last_original_text,
                                                     ShownRuns[j].lo))
                                ELSE Slice(last_original_text, ShownRuns[j].lo,
                                           ShownRuns[j].hi)
              /\ ComposedWithText =>
                    html_content = << StyleRun >> \o ComposedFromStored]_vars

\* an export of a run over two spans with two images: the blank segments
\* before the first span and after the last are left out
C27_Witness ==
    /\ docx.outcome = "text and images"
    /\ Len(docx.items) = 3
    /\ docx.items[1].kind = "img" /\ docx.items[1].at = 1
    /\ docx.items[2].kind = "text" /\ docx.items[2].text = "w"
    /\ docx.items[3].kind = "img" /\ docx.items[3].at = 2
    /\ Len(html_content) = 6

\* C30: while the clipboard holds the fragment the monitor copied and
\* monitoring stays on, no thread starts a pipeline run and the status stays
\* what it was (an exception in the loop apart).
C30_OwnCopyIsIgnored ==
    [][(clipboard.kind = "html" /\ clipboard' = clipboard
            /\ monitoring /\ monitoring') =>
          (~RunStarts /\ status' \in {status, "Error in monitoring"})]_vars

-----------------------------------------------------------------------------
(* The monitor threads under every sequence of Start/Stop clicks *)

\* clicks in any order, one clipboard change by another program
SpecThreadsNext ==
    \/ ToggleMonitoring /\ UNCHANGED idle_vars
    \/ StartMonitorThread /\ UNCHANGED idle_vars
    \/ copies = 0 /\ OtherProgramCopies /\ UNCHANGED idle_vars
    \/ \E i \in 1..Len(threads) : MonitorIteration(i) /\ UNCHANGED idle_vars
    \/ OnClosing /\ UNCHANGED idle_vars

SpecThreads == SpecMonitorInit /\ [][SpecThreadsNext]_vars

\* the threads that MaxClicks clicks can start
MaxThreads == (MaxClicks + 1) \div 2

\* a thread that is not blocked in a call goes on with its loop
ThreadStep(i) == MonitorIteration(i) /\ UNCHANGED idle_vars
FairSpecThreads ==
    SpecThreads /\ \A i \in 1..MaxThreads : WF_vars(ThreadStep(i))

\* the threads inside the loop of monitor_clipboard
ThreadsInLoop == {i \in 1..Len(threads) : InLoop(threads[i])}

\* C28: at most one monitor thread is inside its loop at any time.
C28_AtMostOneMonitorThread == Cardinality(ThreadsInLoop) <= 1

\* C29: once the stop event is set, and unless monitoring is started again,
\* every monitor thread leaves its loop.
C29_ThreadsLeaveAfterStop ==
    stop_event ~> (~stop_event \/ ThreadsInLoop = {})

====
